---------------------------- MODULE Spec2Model ----------------------------
(***************************************************************************)
(* A model of the waste-detection web application:                         *)
(*   src/utils/detector.py  WasteDetector (detect_frame, get_statistics)   *)
(*   src/app.py             the Flask routes /detect, /detect_frame,       *)
(*                          /health, the pages and the error handlers      *)
(*                                                                         *)
(* Three specifications share the module:                                  *)
(*   SpecDetector  the detector's methods applied to bounded inputs        *)
(*   Spec          the HTTP application serving concurrent requests        *)
(*   SpecFrame     the camera-frame handler over every bounded payload     *)
(*                                                                         *)
(* Text (file names, class names, base64 payloads) is a sequence of        *)
(* one-character strings.  Floats are fixed-point integers: box            *)
(* coordinates in tenths of a pixel, confidences in units of 10^-5.        *)
(***************************************************************************)
EXTENDS Integers, Sequences, FiniteSets, TLC

VARIABLES
    \* ---- detector-level state (SpecDetector) ----
    heap,        \* raster objects: object id -> pixel array
    frame,       \* id of the caller's input raster
    snapshot,    \* content of the input raster when the call was made
    raw,         \* the model's raw output for the raster (sequence of boxes)
    result,      \* what detect_frame returned: [annotated, detections] or None
    stats,       \* what get_statistics returned, or None
    dpc,         \* "ready" -> "detected" -> "summarized"
    imageResult, \* what detect_image returned or raised, once it was called
    \* ---- application state (Spec, SpecFrame) ----
    modelFile,   \* models/best.pt at startup: "ok", "absent" or "corrupt"
    started,     \* whether the module body (init_detector()) has run
    loadResult,  \* what init_detector() returned
    detector,    \* the process-wide handle: None or "WasteDetector"
    clock,       \* int(time.time() * 1000)
    dir,         \* the upload folder: file name -> [owner, image]
    pc,          \* per request: "new", "infer", "write", "except", "done"
    req,         \* per request: what the client sent
    loc,         \* per request: the handler's local variables
    resp,        \* per request: the response returned
    eff          \* per request: inference calls, file writes, file deletions

detvars == <<heap, frame, snapshot, raw, result, stats, dpc, imageResult>>
appvars == <<modelFile, started, loadResult, detector, clock, dir, pc, req, loc, resp, eff>>
vars == <<detvars, appvars>>

None == "None"

(***************************************************************************)
(* Bounds of the model.                                                    *)
(***************************************************************************)
MaxBoxes == 2      \* longest raw model output per call
FrameW == 8        \* raster width in pixels
FrameH == 8        \* raster height in pixels

(***************************************************************************)
(* Text helpers.                                                           *)
(***************************************************************************)
UpperCase == <<"A","B","C","D","E","F","G","H","I","J","K","L","M",
               "N","O","P","Q","R","S","T","U","V","W","X","Y","Z">>
LowerCase == <<"a","b","c","d","e","f","g","h","i","j","k","l","m",
               "n","o","p","q","r","s","t","u","v","w","x","y","z">>

\* str.lower() on one character
LowerChar(c) ==
    IF \E i \in 1..26 : UpperCase[i] = c
    THEN LowerCase[CHOOSE i \in 1..26 : UpperCase[i] = c]
    ELSE c

\* str.lower()
Lower(s) == [i \in 1..Len(s) |-> LowerChar(s[i])]

RECURSIVE SeqsUpTo(_, _)
\* every sequence over S of length at most n
SeqsUpTo(S, n) ==
    IF n = 0 THEN {<<>>}
    ELSE LET shorter == SeqsUpTo(S, n - 1)
         IN  shorter \cup {Append(s, x) : s \in {t \in shorter : Len(t) = n - 1}, x \in S}

(***************************************************************************)
(* WasteDetector: the class table of the loaded model and the colours.     *)
(***************************************************************************)
\* self.class_names = self.model.names : class id -> name
class_names ==
    (0 :> <<"P","l","a","s","t","i","c">>) @@
    (1 :> <<"p","a","p","e","r">>) @@
    (2 :> <<"e","-","w","a","s","t","e">>)

\* self.colors : lower-case category -> BGR colour
colors ==
    (<<"p","l","a","s","t","i","c">> :> <<0, 255, 255>>) @@
    (<<"p","a","p","e","r">> :> <<255, 255, 255>>) @@
    (<<"m","e","t","a","l">> :> <<192, 192, 192>>) @@
    (<<"g","l","a","s","s">> :> <<255, 0, 255>>) @@
    (<<"o","r","g","a","n","i","c">> :> <<0, 255, 0>>) @@
    (<<"c","a","r","d","b","o","a","r","d">> :> <<19, 69, 139>>)

default_color == <<0, 255, 0>>

Black == <<0, 0, 0>>

\* self.colors.get(class_name.lower(), self.default_color)
ColorOf(class_name) ==
    IF Lower(class_name) \in DOMAIN colors THEN colors[Lower(class_name)]
    ELSE default_color

(***************************************************************************)
(* Numeric conversions.                                                    *)
(***************************************************************************)
\* int(x) on a float given in tenths: truncation towards zero
IntOf(t) == IF t >= 0 THEN t \div 10 ELSE -((-t) \div 10)

\* round(conf, 4) on a confidence given in units of 10^-5 (result in 10^-4)
Round4(c) ==
    LET q == c \div 10
        r == c % 10
    IN  IF r > 5 \/ (r = 5 /\ q % 2 = 1) THEN q + 1 ELSE q

(***************************************************************************)
(* Rasters and drawing (cv2.rectangle, cv2.getTextSize, cv2.putText).      *)
(* A raster is a function from pixel coordinates to a colour; drawing      *)
(* clips to the raster, as OpenCV does.                                    *)
(***************************************************************************)
Pixels == (0..(FrameW - 1)) \X (0..(FrameH - 1))

Min(a, b) == IF a <= b THEN a ELSE b
Max(a, b) == IF a >= b THEN a ELSE b

\* cv2.rectangle(img, p1, p2, color, thickness): a filled box when the
\* thickness is negative, else a stroke of that width along the box's edge
Rectangle(img, p1, p2, color, thickness) ==
    LET xa == Min(p1[1], p2[1])
        xb == Max(p1[1], p2[1])
        ya == Min(p1[2], p2[2])
        yb == Max(p1[2], p2[2])
        Inside(p) == xa <= p[1] /\ p[1] <= xb /\ ya <= p[2] /\ p[2] <= yb
        Inner(p) == /\ xa + thickness <= p[1] /\ p[1] <= xb - thickness
                    /\ ya + thickness <= p[2] /\ p[2] <= yb - thickness
        Hit(p) == IF thickness < 0 THEN Inside(p) ELSE Inside(p) /\ ~Inner(p)
    IN  [p \in DOMAIN img |-> IF Hit(p) THEN color ELSE img[p]]

\* font metrics of FONT_HERSHEY_SIMPLEX at scale 0.6, thickness 2
GlyphWidth == 11
GlyphHeight == 13

\* len(f"{class_name}: {conf:.2f}") : name, ": ", and "d.dd"
LabelLen(class_name) == Len(class_name) + 2 + 4

\* cv2.getTextSize(label, ...)[0] : (label_width, label_height)
getTextSize(class_name) == <<GlyphWidth * LabelLen(class_name), GlyphHeight>>

\* cv2.putText(img, label, org, ...): the glyphs lie in the label's box,
\* whose bottom-left corner is org; that box is painted in the text colour
putText(img, class_name, org, color) ==
    LET size == getTextSize(class_name)
    IN  [p \in DOMAIN img |->
            IF /\ org[1] <= p[1] /\ p[1] < org[1] + size[1]
               /\ org[2] - size[2] < p[2] /\ p[2] <= org[2]
            THEN color ELSE img[p]]

\* the loop body of detect_frame for one raw box: the drawing part
DrawBox(img, box) ==
    LET x1 == IntOf(box.xyxy[1])
        y1 == IntOf(box.xyxy[2])
        x2 == IntOf(box.xyxy[3])
        y2 == IntOf(box.xyxy[4])
        class_name == class_names[box.cls]
        color == ColorOf(class_name)
        size == getTextSize(class_name)
        boxed == Rectangle(img, <<x1, y1>>, <<x2, y2>>, color, 2)
        backed == Rectangle(boxed, <<x1, y1 - size[2] - 10>>,
                            <<x1 + size[1] + 10, y1>>, color, -1)
    IN  putText(backed, class_name, <<x1 + 5, y1 - 5>>, Black)

\* the loop body of detect_frame for one raw box: the detection it stores
DetectionOf(box) ==
    [class |-> class_names[box.cls],
     confidence |-> Round4(box.conf),
     bbox |-> <<IntOf(box.xyxy[1]), IntOf(box.xyxy[2]),
                IntOf(box.xyxy[3]), IntOf(box.xyxy[4])>>]

RECURSIVE DrawAll(_, _, _)
\* the drawing done by boxes i.. of the results, in order
DrawAll(img, boxes, i) ==
    IF i > Len(boxes) THEN img
    ELSE DrawAll(DrawBox(img, boxes[i]), boxes, i + 1)

\* a fresh object id
NewId(h) == Cardinality(DOMAIN h) + 1

\* an aliasing bug: no copy is taken, the annotations go onto the input
FrameAlias(h, f) == [heap |-> h, id |-> f]

\* annotated_frame = frame.copy(): a new object with the same content
FrameCopy(h, f) == [heap |-> h @@ (NewId(h) :> h[f]), id |-> NewId(h)]

\* WasteDetector.detect_frame(frame, conf_threshold), given the model's raw
\* output for the frame: the heap afterwards and the returned pair
detect_frame(h, f, results) ==
    LET c == FrameCopy(h, f)
        drawn == DrawAll(c.heap[c.id], results, 1)
    IN  [heap |-> [c.heap EXCEPT ![c.id] = drawn],
         annotated |-> c.id,
         detections |-> [i \in 1..Len(results) |-> DetectionOf(results[i])]]

\* what detect_image has returned before it is called
NotCalled == [status |-> "not called", annotated |-> 0, detections |-> <<>>]

RECURSIVE ImageLoop(_, _, _, _)
\* an ordering bug: each detection is put in front of the list
ImageLoopPrepend(annotated_image, detections, boxes, i) ==
    IF i > Len(boxes) THEN [image |-> annotated_image, detections |-> detections]
    ELSE LET box == boxes[i]
             x1 == IntOf(box.xyxy[1])
             y1 == IntOf(box.xyxy[2])
             x2 == IntOf(box.xyxy[3])
             y2 == IntOf(box.xyxy[4])
             class_name == class_names[box.cls]
             color == ColorOf(class_name)
             boxed == Rectangle(annotated_image, <<x1, y1>>, <<x2, y2>>, color, 2)
             size == getTextSize(class_name)
             backed == Rectangle(boxed, <<x1, y1 - size[2] - 10>>,
                                 <<x1 + size[1] + 10, y1>>, color, -1)
             texted == putText(backed, class_name, <<x1 + 5, y1 - 5>>, Black)
         IN  ImageLoop(texted,
                       <<[class |-> class_name,
                          confidence |-> Round4(box.conf),
                          bbox |-> <<x1, y1, x2, y2>>]>> \o detections,
                       boxes, i + 1)

\* the loops of detect_image over the results from box i on: the raster
\* drawn on and the detections appended so far
ImageLoop(annotated_image, detections, boxes, i) ==
    IF i > Len(boxes) THEN [image |-> annotated_image, detections |-> detections]
    ELSE LET box == boxes[i]
             x1 == IntOf(box.xyxy[1])
             y1 == IntOf(box.xyxy[2])
             x2 == IntOf(box.xyxy[3])
             y2 == IntOf(box.xyxy[4])
             class_name == class_names[box.cls]
             color == ColorOf(class_name)
             boxed == Rectangle(annotated_image, <<x1, y1>>, <<x2, y2>>, color, 2)
             size == getTextSize(class_name)
             backed == Rectangle(boxed, <<x1, y1 - size[2] - 10>>,
                                 <<x1 + size[1] + 10, y1>>, color, -1)
             texted == putText(backed, class_name, <<x1 + 5, y1 - 5>>, Black)
         IN  ImageLoop(texted,
                       Append(detections,
                              [class |-> class_name,
                               confidence |-> Round4(box.conf),
                               bbox |-> <<x1, y1, x2, y2>>]),
                       boxes, i + 1)

\* WasteDetector.detect_image(image_path, conf_threshold), given the content
\* of the file (content; readable is false when cv2.imread gives None) and
\* the model's raw output for it: the heap afterwards and the returned pair,
\* or the ValueError raised
detect_image(h, content, readable, results) ==
    IF ~readable
    THEN [heap |-> h, status |-> "ValueError", annotated |-> 0, detections |-> <<>>]
    ELSE LET image == NewId(h)
             read == h @@ (image :> content)
             annotated_image == NewId(read)
             copied == read @@ (annotated_image :> read[image])
             looped == ImageLoop(copied[annotated_image], <<>>, results, 1)
         IN  [heap |-> [copied EXCEPT ![annotated_image] = looped.image],
              status |-> "returned",
              annotated |-> annotated_image,
              detections |-> looped.detections]

RECURSIVE CountLoop(_, _, _)
\* a counting bug: the bucket is set to 1 instead of incremented
CountLoopNoIncrement(detections, i, categories) ==
    IF i > Len(detections) THEN categories
    ELSE LET class_name == detections[i].class
         IN  CountLoop(detections, i + 1,
                 [c \in DOMAIN categories \cup {class_name} |->
                     IF c = class_name THEN 1 ELSE categories[c]])

\* the for loop of get_statistics from detection i on
CountLoop(detections, i, categories) ==
    IF i > Len(detections) THEN categories
    ELSE LET class_name == detections[i].class
             opened == IF class_name \notin DOMAIN categories
                        THEN categories @@ (class_name :> 0)
                        ELSE categories
         IN  CountLoop(detections, i + 1,
                       [opened EXCEPT ![class_name] = @ + 1])

\* WasteDetector.get_statistics(detections)
get_statistics(detections) ==
    [total_items |-> Len(detections),
     categories |-> CountLoop(detections, 1, <<>>)]

(***************************************************************************)
(* src/app.py: configuration and the text functions of the upload flow.    *)
(***************************************************************************)
ALLOWED_EXTENSIONS ==
    { <<"p","n","g">>, <<"j","p","g">>, <<"j","p","e","g">>,
      <<"b","m","p">>, <<"w","e","b","p">> }

\* s[a..b], empty when a > b
Slice(s, a, b) == [i \in 1..(b - a + 1) |-> s[a + i - 1]]

\* the positions of character c in s
Positions(s, c) == {i \in 1..Len(s) : s[i] = c}

RECURSIVE LastIndex(_, _, _)
\* scanning from the right as rsplit does: the last position <= i holding c, 0 if none
LastIndex(s, c, i) ==
    IF i = 0 THEN 0
    ELSE IF s[i] = c THEN i
    ELSE LastIndex(s, c, i - 1)

RECURSIVE FirstIndex(_, _, _)
\* scanning from the left as split does: the first position >= i holding c, 0 if none
FirstIndex(s, c, i) ==
    IF i > Len(s) THEN 0
    ELSE IF s[i] = c THEN i
    ELSE FirstIndex(s, c, i + 1)

\* a bug: the piece after the first dot is taken, as filename.split('.')[1]
allowed_file_first_piece(filename) ==
    LET i == FirstIndex(filename, ".", 1)
        j == IF i = 0 THEN 0 ELSE FirstIndex(filename, ".", i + 1)
        piece == IF j = 0 THEN Slice(filename, i + 1, Len(filename))
                 ELSE Slice(filename, i + 1, j - 1)
    IN  i # 0 /\ Lower(piece) \in ALLOWED_EXTENSIONS

\* allowed_file(filename):
\*   '.' in filename and filename.rsplit('.', 1)[1].lower() in ALLOWED_EXTENSIONS
allowed_file(filename) ==
    LET i == LastIndex(filename, ".", Len(filename))
    IN  /\ i # 0
        /\ Lower(Slice(filename, i + 1, Len(filename))) \in ALLOWED_EXTENSIONS

\* characters werkzeug's secure_filename keeps
SafeChars ==
    {UpperCase[i] : i \in 1..26} \cup {LowerCase[i] : i \in 1..26} \cup
    {"0","1","2","3","4","5","6","7","8","9","_",".","-"}

RECURSIVE SplitJoin(_, _, _, _)
\* "_".join(s.split()) from position i: runs of blanks become one "_",
\* leading and trailing blanks vanish (acc: the text so far, gap: a blank run
\* was seen since the last word character)
SplitJoin(s, i, acc, gap) ==
    IF i > Len(s) THEN acc
    ELSE IF s[i] = " " THEN SplitJoin(s, i + 1, acc, TRUE)
    ELSE SplitJoin(s, i + 1,
                   IF gap /\ acc # <<>> THEN acc \o <<"_", s[i]>>
                   ELSE Append(acc, s[i]),
                   FALSE)

RECURSIVE Strip(_, _)
\* s.strip(chars)
Strip(s, chars) ==
    IF s = <<>> THEN s
    ELSE IF s[1] \in chars THEN Strip(Tail(s), chars)
    ELSE IF s[Len(s)] \in chars THEN Strip(SubSeq(s, 1, Len(s) - 1), chars)
    ELSE s

\* werkzeug.utils.secure_filename: path separators become blanks, blank runs
\* become "_", other characters outside SafeChars are dropped, and leading
\* and trailing dots and underscores are stripped
secure_filename(filename) ==
    LET spaced == [i \in 1..Len(filename) |->
                      IF filename[i] \in {"/", "\\"} THEN " " ELSE filename[i]]
        joined == SplitJoin(spaced, 1, <<>>, FALSE)
        kept == SelectSeq(joined, LAMBDA c : c \in SafeChars)
    IN  Strip(kept, {".", "_"})

Digits == <<"0","1","2","3","4","5","6","7","8","9">>

RECURSIVE Str(_)
\* str(n) for a natural number
Str(n) == IF n < 10 THEN <<Digits[n + 1]>> ELSE Append(Str(n \div 10), Digits[(n % 10) + 1])

\* filename = f"{timestamp}_{secure_filename(file.filename)}"
StoredName(timestamp, filename) == Str(timestamp) \o <<"_">> \o secure_filename(filename)

\* output_filename = f"detected_{filename}"
OutputName(filename) == <<"d","e","t","e","c","t","e","d","_">> \o filename

\* float(request.form.get('confidence', 0.25)) / float(data.get('confidence', 0.25)):
\* the threshold in hundredths, or the error float() raises
ParseConfidence(field) ==
    CASE field = "absent" -> [ok |-> TRUE, value |-> 25, error |-> ""]
      [] field = "0.5"    -> [ok |-> TRUE, value |-> 50, error |-> ""]
      [] field = "abc"    -> [ok |-> FALSE, value |-> 0,
                              error |-> "could not convert string to float: 'abc'"]

ConfFields == {"absent", "0.5", "abc"}

(***************************************************************************)
(* base64.b64decode and cv2.imdecode of the camera-frame flow.             *)
(***************************************************************************)
\* the base64 alphabet, as far as the payloads of the model use it
B64Value == ("i" :> 34) @@ ("V" :> 21)

RECURSIVE a2b_base64(_, _, _, _, _, _)
\* binascii.a2b_base64 (not strict), the loop from position i on:
\* quad_pos, leftchar and pads as in the C code, out: bytes emitted so far
a2b_base64(s, i, quad_pos, leftchar, pads, out) ==
    IF i > Len(s)
    THEN IF quad_pos # 0
         THEN [ok |-> FALSE, bytes |-> <<>>,
               error |-> IF quad_pos = 1
                         THEN "Invalid base64-encoded string"
                         ELSE "Incorrect padding"]
         ELSE [ok |-> TRUE, bytes |-> out, error |-> ""]
    ELSE IF s[i] = "="
    THEN IF quad_pos >= 2 /\ quad_pos + pads + 1 >= 4
         THEN [ok |-> TRUE, bytes |-> out, error |-> ""]
         ELSE a2b_base64(s, i + 1, quad_pos, leftchar,
                         IF quad_pos >= 2 THEN pads + 1 ELSE pads, out)
    ELSE IF s[i] \notin DOMAIN B64Value
    THEN a2b_base64(s, i + 1, quad_pos, leftchar, pads, out)
    ELSE LET v == B64Value[s[i]]
         IN  CASE quad_pos = 0 ->
                    a2b_base64(s, i + 1, 1, v, 0, out)
               [] quad_pos = 1 ->
                    a2b_base64(s, i + 1, 2, v % 16, 0,
                               Append(out, (leftchar * 4 + v \div 16) % 256))
               [] quad_pos = 2 ->
                    a2b_base64(s, i + 1, 3, v % 4, 0,
                               Append(out, (leftchar * 16 + v \div 4) % 256))
               [] quad_pos = 3 ->
                    a2b_base64(s, i + 1, 0, 0, 0,
                               Append(out, (leftchar * 64 + v) % 256))

\* base64.b64decode(image_data)
b64decode(s) == a2b_base64(s, 1, 0, 0, 0, <<>>)

\* the first byte of an encoded raster (the PNG signature starts with 0x89)
RasterSignature == 137

\* cv2.imdecode(nparr, cv2.IMREAD_COLOR): "raster", "none" (not an image), or
\* "raise"; an empty buffer raises in some OpenCV builds and gives None in others
imdecode(bytes) ==
    IF bytes = <<>> THEN {"raise", "none"}
    ELSE IF bytes[1] = RasterSignature THEN {"raster"}
    ELSE {"none"}

\* if ',' in image_data: image_data = image_data.split(',')[1]
StripPrefix(image) ==
    LET i == FirstIndex(image, ",", 1)
        j == IF i = 0 THEN 0 ELSE FirstIndex(image, ",", i + 1)
    IN  IF i = 0 THEN image
        ELSE IF j = 0 THEN Slice(image, i + 1, Len(image))
        ELSE Slice(image, i + 1, j - 1)

(***************************************************************************)
(* src/app.py: requests, responses and the handlers.                       *)
(***************************************************************************)
MaxClock == 1      \* last millisecond the clock reaches

\* two requests, handled concurrently: every claim about the application is
\* about one request or about a pair of them
Requests == {1, 2}

\* what a request carries; the fields a route does not read keep these values
NoReq == [route |-> "", method |-> "", hasFile |-> FALSE, filename |-> <<>>,
          oversize |-> FALSE, body |-> "", image |-> <<>>, confidence |-> "absent"]

\* a local variable holding text that is not bound yet
Unbound == [bound |-> FALSE, text |-> <<>>]

\* the locals of detect(): filename (once bound), whether file.save wrote the
\* file, whether output_path is bound, the exception caught, and how the
\* cleanup block ended ("" clean, "NameError", "OSError"); and the local
\* image_data of detect_frame(), the text handed to base64.b64decode
NoLoc == [filename |-> <<>>, persisted |-> FALSE, output_bound |-> FALSE,
          cause |-> "", cleanup |-> "", image_data |-> Unbound]

NoStats == [total_items |-> 0, categories |-> <<>>]

NoResp == [status |-> 0, body |-> "", success |-> "absent", error |-> "",
           cause |-> "", model_loaded |-> "absent", threshold |-> 0,
           detections |-> <<>>, statistics |-> NoStats]

NoEff == [inferences |-> 0, writes |-> 0, deletes |-> 0]

\* jsonify({'success': False, 'error': ...}), status
ErrorResponse(status, text, cause) ==
    [NoResp EXCEPT !.status = status, !.body = "json", !.success = "false",
                   !.error = text, !.cause = cause]

\* jsonify(response) of a successful detection: status 200
DetectionResponse(raws, threshold) ==
    LET detections == [i \in 1..Len(raws) |-> DetectionOf(raws[i])]
    IN  [NoResp EXCEPT !.status = 200, !.body = "json", !.success = "true",
                       !.threshold = threshold, !.detections = detections,
                       !.statistics = get_statistics(detections)]

\* what the model reports for a raster, as far as the application's runs go
AppRawSamples ==
    { <<>>,
      << [xyxy |-> <<15, 52, 68, 79>>, cls |-> 0, conf |-> 87656],
         [xyxy |-> <<-5, 9, 30, 25>>, cls |-> 0, conf |-> 25004] >> }

\* file names clients upload
UploadNames ==
    { <<>>,
      <<"a",".","t","x","t">>,
      <<"p","n","g">>,
      <<"a",".","p","n","g",".","t","x","t">>,
      <<"a",".","P","N","G">>,
      <<"a"," ","b",".","j","p","g">>,
      <<"a","_","b",".","j","p","g">> }

\* image payloads of camera-frame requests in the concurrent runs
FrameSamples ==
    { <<"i","V","=","=">>, <<"V","i","=","=">>, <<"i","V","-">>,
      <<"x",",","i","V","=","=">> }

\* WasteDetector.__init__(model_path): the handle, or the exception raised
WasteDetectorInit(file) ==
    CASE file = "absent"  -> [handle |-> None, raised |-> "FileNotFoundError"]
      [] file = "corrupt" -> [handle |-> None, raised |-> "Exception"]
      [] file = "ok"      -> [handle |-> "WasteDetector", raised |-> ""]

\* a bug: without `global detector` the assignment binds a local name
init_detector_local(file) ==
    [detector |-> None, returned |-> WasteDetectorInit(file).raised = ""]

\* init_detector(): the value left in the global and the value returned
init_detector_result(file) ==
    LET w == WasteDetectorInit(file)
    IN  IF w.raised = "" THEN [detector |-> w.handle, returned |-> TRUE]
        ELSE [detector |-> None, returned |-> FALSE]

\* the module body: detector = None; init_detector()
init_detector ==
    /\ ~started
    /\ started' = TRUE
    /\ detector' = init_detector_result(modelFile).detector
    /\ loadResult' = init_detector_result(modelFile).returned
    /\ UNCHANGED <<modelFile, clock, dir, pc, req, loc, resp, eff>>

\* a millisecond passes
Tick ==
    /\ started
    /\ clock < MaxClock
    /\ clock' = clock + 1
    /\ UNCHANGED <<modelFile, started, loadResult, detector, dir, pc, req, loc, resp, eff>>

\* a request answered in one step that touches no file and no local
Answer(r, request, response, inferences) ==
    /\ pc' = [pc EXCEPT ![r] = "done"]
    /\ req' = [req EXCEPT ![r] = request]
    /\ resp' = [resp EXCEPT ![r] = response]
    /\ eff' = [eff EXCEPT ![r].inferences = inferences]
    /\ UNCHANGED <<modelFile, started, loadResult, detector, clock, dir, loc>>

PageRoutes == {"/", "/upload", "/camera"}
GetRoutes == PageRoutes \cup {"/health"}
PostRoutes == {"/detect", "/detect_frame"}

\* index / upload_page / camera_page: render_template(...); a template that
\* fails to render is answered by the 500 handler internal_error
Page(r) ==
    /\ started /\ pc[r] = "new"
    /\ \E route \in PageRoutes, rendered \in BOOLEAN :
          Answer(r, [NoReq EXCEPT !.route = route, !.method = "GET"],
                 IF rendered
                 THEN [NoResp EXCEPT !.status = 200, !.body = "html"]
                 ELSE ErrorResponse(500, "Internal server error", ""),
                 0)

\* health(): jsonify({'status': 'healthy', 'model_loaded': detector is not None, ...})
HealthBody(d) ==
    [NoResp EXCEPT !.status = 200, !.body = "json",
                   !.model_loaded = IF d # None THEN "true" ELSE "false"]

health(r) ==
    /\ started /\ pc[r] = "new"
    /\ Answer(r, [NoReq EXCEPT !.route = "/health", !.method = "GET"],
              HealthBody(detector), 0)

\* not_found(e): no route matches the path
not_found(r) ==
    /\ started /\ pc[r] = "new"
    /\ \E method \in {"GET", "POST"} :
          Answer(r, [NoReq EXCEPT !.route = "/nope", !.method = method],
                 ErrorResponse(404, "Endpoint not found", ""), 0)

\* a route matches the path but not the method (methods=['POST'], or the
\* default GET): no handler is registered for 405, Flask answers with its
\* default HTML page
MethodNotAllowed(r) ==
    /\ started /\ pc[r] = "new"
    /\ \E route \in GetRoutes \cup PostRoutes :
          Answer(r, [NoReq EXCEPT !.route = route,
                        !.method = IF route \in PostRoutes THEN "GET" ELSE "POST"],
                 [NoResp EXCEPT !.status = 405, !.body = "html"], 0)

ModelNotLoaded ==
    ErrorResponse(500, "Model not loaded. Please check if models/best.pt exists.", "")

\* a bug: the handlers do not look at the handle
ModelLoadedUnchecked(d) == TRUE

\* the gate of detect() and detect_frame(): `detector is None` is false
ModelLoaded(d) == d # None

\* detect(), from its first line to file.save(filepath)
detect_begin(r, Names) ==
    /\ started /\ pc[r] = "new"
    /\ \E hasFile \in BOOLEAN, name \in Names, oversize \in BOOLEAN,
          isImage \in BOOLEAN, saved \in BOOLEAN :
        LET request == [NoReq EXCEPT !.route = "/detect", !.method = "POST",
                           !.hasFile = hasFile,
                           !.filename = IF hasFile THEN name ELSE <<>>,
                           !.oversize = oversize]
            stored == StoredName(clock, name)
        IN  IF ~ModelLoaded(detector)
            THEN Answer(r, request, ModelNotLoaded, 0)
            ELSE IF oversize    \* request.files raises RequestEntityTooLarge
            THEN Answer(r, request,
                        ErrorResponse(413, "File is too large. Maximum size is 16MB", ""), 0)
            ELSE IF ~hasFile
            THEN Answer(r, request, ErrorResponse(400, "No file uploaded", ""), 0)
            ELSE IF name = <<>>
            THEN Answer(r, request, ErrorResponse(400, "No file selected", ""), 0)
            ELSE IF ~allowed_file(name)
            THEN Answer(r, request, ErrorResponse(400, "Invalid file type", ""), 0)
            ELSE /\ req' = [req EXCEPT ![r] = request]
                 /\ IF saved
                    THEN /\ dir' = (stored :> [owner |-> r, image |-> isImage]) @@ dir
                         /\ loc' = [loc EXCEPT ![r].filename = stored,
                                               ![r].persisted = TRUE]
                         /\ eff' = [eff EXCEPT ![r].writes = @ + 1]
                         /\ pc' = [pc EXCEPT ![r] = "infer"]
                    ELSE /\ dir' = dir
                         /\ loc' = [loc EXCEPT ![r].filename = stored,
                                               ![r].cause = "OSError: cannot save"]
                         /\ eff' = eff
                         /\ pc' = [pc EXCEPT ![r] = "except"]
                 /\ UNCHANGED <<modelFile, started, loadResult, detector, clock, resp>>

\* an exception is caught by `except Exception as e` of detect()
Raise(r, cause) ==
    /\ pc' = [pc EXCEPT ![r] = "except"]
    /\ loc' = [loc EXCEPT ![r].cause = cause]

\* detect(): conf_threshold = float(...) and detector.detect_image(filepath, conf),
\* which reads the file back (cv2.imread) and runs the model
detect_infer(r) ==
    /\ pc[r] = "infer"
    /\ \E field \in ConfFields, predicted \in BOOLEAN :
        LET conf == ParseConfidence(field)
            name == loc[r].filename
        IN  /\ req' = [req EXCEPT ![r].confidence = field]
            /\ IF ~conf.ok
               THEN Raise(r, conf.error) /\ eff' = eff
               ELSE IF name \notin DOMAIN dir \/ ~dir[name].image
               THEN Raise(r, "Could not read image") /\ eff' = eff
               ELSE /\ eff' = [eff EXCEPT ![r].inferences = @ + 1]
                    /\ IF predicted
                       THEN pc' = [pc EXCEPT ![r] = "write"] /\ loc' = loc
                       ELSE Raise(r, "predict failed")
    /\ UNCHANGED <<modelFile, started, loadResult, detector, clock, dir, resp>>

\* detect(): output_path is bound, cv2.imwrite(output_path, annotated_image),
\* get_statistics and jsonify(response).  imwrite writes the file ("ok"),
\* raises ("raise"), or raises leaving a truncated file ("partial")
detect_write(r) ==
    /\ pc[r] = "write"
    /\ \E raws \in AppRawSamples, written \in {"ok", "raise", "partial"},
          responded \in BOOLEAN :
        LET out == OutputName(loc[r].filename)
            conf == ParseConfidence(req[r].confidence)
        IN  /\ dir' = IF written = "raise" THEN dir
                      ELSE (out :> [owner |-> r, image |-> written = "ok"]) @@ dir
            /\ eff' = IF written = "raise" THEN eff
                      ELSE [eff EXCEPT ![r].writes = @ + 1]
            /\ IF written = "ok" /\ responded
               THEN /\ pc' = [pc EXCEPT ![r] = "done"]
                    /\ loc' = [loc EXCEPT ![r].output_bound = TRUE]
                    /\ resp' = [resp EXCEPT ![r] = DetectionResponse(raws, conf.value)]
               ELSE /\ pc' = [pc EXCEPT ![r] = "except"]
                    /\ loc' = [loc EXCEPT ![r].output_bound = TRUE,
                                          ![r].cause = IF written = "ok"
                                                       THEN "jsonify failed"
                                                       ELSE "imwrite failed"]
                    /\ resp' = resp
    /\ UNCHANGED <<modelFile, started, loadResult, detector, clock, req>>

\* the set d without the file named f
Remove(d, f) == [g \in DOMAIN d \ {f} |-> d[g]]

\* a bug: the output file is deleted first, so that an unbound output_path
\* ends the cleanup before the input file is looked at
CleanupOutputFirst(d, filename, output_bound, failing) ==
    LET out == OutputName(filename)
    IN  IF ~output_bound THEN [dir |-> d, error |-> "NameError", deletes |-> 0]
        ELSE IF out \in DOMAIN d /\ failing = "output"
        THEN [dir |-> d, error |-> "OSError", deletes |-> 0]
        ELSE LET d1 == IF out \in DOMAIN d THEN Remove(d, out) ELSE d
                 n1 == IF out \in DOMAIN d THEN 1 ELSE 0
             IN  IF filename \in DOMAIN d1 /\ failing = "input"
                 THEN [dir |-> d1, error |-> "OSError", deletes |-> n1]
                 ELSE IF filename \in DOMAIN d1
                 THEN [dir |-> Remove(d1, filename), error |-> "", deletes |-> n1 + 1]
                 ELSE [dir |-> d1, error |-> "", deletes |-> n1]

\* the cleanup block of detect():
\*     try:
\*         if os.path.exists(filepath): os.remove(filepath)
\*         if os.path.exists(output_path): os.remove(output_path)
\*     except: pass
\* failing: the os.remove that raises, if any ("none", "input", "output").
\* The directory afterwards, the error swallowed, the number of deletions.
Cleanup(d, filename, output_bound, failing) ==
    LET out == OutputName(filename)
    IN  IF filename \in DOMAIN d /\ failing = "input"
        THEN [dir |-> d, error |-> "OSError", deletes |-> 0]
        ELSE LET d1 == IF filename \in DOMAIN d THEN Remove(d, filename) ELSE d
                 n1 == IF filename \in DOMAIN d THEN 1 ELSE 0
             IN  IF ~output_bound
                 THEN [dir |-> d1, error |-> "NameError", deletes |-> n1]
                 ELSE IF out \in DOMAIN d1 /\ failing = "output"
                 THEN [dir |-> d1, error |-> "OSError", deletes |-> n1]
                 ELSE IF out \in DOMAIN d1
                 THEN [dir |-> Remove(d1, out), error |-> "", deletes |-> n1 + 1]
                 ELSE [dir |-> d1, error |-> "", deletes |-> n1]

\* a bug: the cleanup block has no try of its own, so an error of the cleanup
\* leaves the handler and Flask answers through internal_error()
detect_cleanup_unguarded(r) ==
    /\ pc[r] = "except"
    /\ \E failing \in {"none", "input", "output"} :
        LET c == Cleanup(dir, loc[r].filename, loc[r].output_bound, failing)
        IN  /\ dir' = c.dir
            /\ loc' = [loc EXCEPT ![r].cleanup = c.error]
            /\ eff' = [eff EXCEPT ![r].deletes = @ + c.deletes]
            /\ resp' = [resp EXCEPT ![r] =
                           IF c.error = ""
                           THEN ErrorResponse(500, "Detection failed", loc[r].cause)
                           ELSE ErrorResponse(500, "Internal server error", "")]
            /\ pc' = [pc EXCEPT ![r] = "done"]
    /\ UNCHANGED <<modelFile, started, loadResult, detector, clock, req>>

\* detect(): the except block, the cleanup and the 500 response
detect_cleanup(r) ==
    /\ pc[r] = "except"
    /\ \E failing \in {"none", "input", "output"} :
        LET c == Cleanup(dir, loc[r].filename, loc[r].output_bound, failing)
        IN  /\ dir' = c.dir
            /\ loc' = [loc EXCEPT ![r].cleanup = c.error]
            /\ eff' = [eff EXCEPT ![r].deletes = @ + c.deletes]
            /\ resp' = [resp EXCEPT ![r] =
                           ErrorResponse(500, "Detection failed", loc[r].cause)]
            /\ pc' = [pc EXCEPT ![r] = "done"]
    /\ UNCHANGED <<modelFile, started, loadResult, detector, clock, req>>

\* the body of detect_frame() after the gate, for one request: the response
\* and the number of inference calls.  enforced: the size limit is applied
\* when the body is read; decoded: what cv2.imdecode gives for the bytes;
\* raws: what the model reports, or "raise"
FrameOutcome(request, enforced, decoded, predicted, raws) ==
    LET failed(cause) == [response |-> ErrorResponse(500, "Frame detection failed", cause),
                          inferences |-> 0]
        conf == ParseConfidence(request.confidence)
        bytes == b64decode(StripPrefix(request.image))
    IN  IF request.oversize /\ enforced
        THEN failed("413 Request Entity Too Large")
        ELSE IF request.body = "malformed"
        THEN failed("400 Bad Request")
        ELSE IF request.body = "no_image"
        THEN [response |-> ErrorResponse(400, "No image data provided", ""),
              inferences |-> 0]
        ELSE IF ~conf.ok THEN failed(conf.error)
        ELSE IF ~bytes.ok THEN failed(bytes.error)
        ELSE IF decoded = "raise" THEN failed("cv2.error")
        ELSE IF decoded = "none"
        THEN [response |-> ErrorResponse(400, "Failed to decode image", ""),
              inferences |-> 0]
        ELSE IF ~predicted
        THEN [response |-> ErrorResponse(500, "Frame detection failed", "predict failed"),
              inferences |-> 1]
        ELSE [response |-> DetectionResponse(raws, conf.value), inferences |-> 1]

\* detect_frame(): the local image_data once the handler has passed
\*     image_data = data['image']
\*     if ',' in image_data: image_data = image_data.split(',')[1]
FrameImageData(request, enforced) ==
    IF (request.oversize /\ enforced) \/ request.body # "image"
    THEN Unbound
    ELSE [bound |-> TRUE, text |-> StripPrefix(request.image)]

\* a camera-frame request answered: the response and the handler's locals
AnswerFrame(r, request, response, inferences, image_data) ==
    /\ pc' = [pc EXCEPT ![r] = "done"]
    /\ req' = [req EXCEPT ![r] = request]
    /\ resp' = [resp EXCEPT ![r] = response]
    /\ eff' = [eff EXCEPT ![r].inferences = inferences]
    /\ loc' = [loc EXCEPT ![r].image_data = image_data]
    /\ UNCHANGED <<modelFile, started, loadResult, detector, clock, dir>>

\* the requests detect_frame() may get, with image payloads from Images
FrameRequests(Images) ==
    { [NoReq EXCEPT !.route = "/detect_frame", !.method = "POST",
                    !.body = "image", !.image = image, !.confidence = field,
                    !.oversize = oversize] :
        image \in Images, field \in ConfFields, oversize \in BOOLEAN }
    \cup
    { [NoReq EXCEPT !.route = "/detect_frame", !.method = "POST", !.body = body] :
        body \in {"malformed", "no_image"} }

\* a bug: the handler keeps each frame it annotated in the upload folder
detect_frame_saving(r, Images) ==
    /\ started /\ pc[r] = "new"
    /\ \E request \in FrameRequests(Images), enforced \in BOOLEAN,
          predicted \in BOOLEAN, raws \in AppRawSamples :
         \E decoded \in imdecode(b64decode(StripPrefix(request.image)).bytes) :
            LET o == IF ~ModelLoaded(detector)
                     THEN [response |-> ModelNotLoaded, inferences |-> 0]
                     ELSE FrameOutcome(request, enforced, decoded, predicted, raws)
                kept == o.response.status = 200
                name == StoredName(clock, <<"f",".","j","p","g">>)
            IN  /\ pc' = [pc EXCEPT ![r] = "done"]
                /\ req' = [req EXCEPT ![r] = request]
                /\ resp' = [resp EXCEPT ![r] = o.response]
                /\ eff' = [eff EXCEPT ![r].inferences = o.inferences,
                                      ![r].writes = IF kept THEN 1 ELSE 0]
                /\ dir' = IF kept THEN (name :> [owner |-> r, image |-> TRUE]) @@ dir
                          ELSE dir
                /\ loc' = [loc EXCEPT ![r].image_data =
                               IF ModelLoaded(detector)
                               THEN FrameImageData(request, enforced) ELSE Unbound]
                /\ UNCHANGED <<modelFile, started, loadResult, detector, clock>>

\* detect_frame(): the whole handler
detect_frame_request(r, Images) ==
    /\ started /\ pc[r] = "new"
    /\ \E request \in FrameRequests(Images) :
          IF ~ModelLoaded(detector)
          THEN Answer(r, request, ModelNotLoaded, 0)
          ELSE \E enforced \in BOOLEAN, predicted \in BOOLEAN, raws \in AppRawSamples :
                 \E decoded \in imdecode(b64decode(StripPrefix(request.image)).bytes) :
                    LET o == FrameOutcome(request, enforced, decoded, predicted, raws)
                    IN  AnswerFrame(r, request, o.response, o.inferences,
                                    FrameImageData(request, enforced))

(***************************************************************************)
(* Spec: the application serving two requests, in any interleaving of the  *)
(* steps of their handlers (app.run(threaded=True)).                       *)
(***************************************************************************)
\* the detector-level variables while the application runs
DetectorIdle ==
    /\ heap = <<>> /\ frame = 0 /\ snapshot = <<>> /\ raw = <<>>
    /\ result = None /\ stats = None /\ dpc = "off"
    /\ imageResult = NotCalled

\* the application's variables before the module body runs
AppInit ==
    /\ modelFile \in {"ok", "absent", "corrupt"}
    /\ started = FALSE
    /\ loadResult = FALSE
    /\ detector = None
    /\ clock = 0
    /\ dir = <<>>
    /\ pc = [r \in Requests |-> "new"]
    /\ req = [r \in Requests |-> NoReq]
    /\ loc = [r \in Requests |-> NoLoc]
    /\ resp = [r \in Requests |-> NoResp]
    /\ eff = [r \in Requests |-> NoEff]

Init == AppInit /\ DetectorIdle

Next ==
    \/ init_detector /\ UNCHANGED detvars
    \/ Tick /\ UNCHANGED detvars
    \/ \E r \in Requests : Page(r) /\ UNCHANGED detvars
    \/ \E r \in Requests : health(r) /\ UNCHANGED detvars
    \/ \E r \in Requests : not_found(r) /\ UNCHANGED detvars
    \/ \E r \in Requests : MethodNotAllowed(r) /\ UNCHANGED detvars
    \/ \E r \in Requests : detect_begin(r, UploadNames) /\ UNCHANGED detvars
    \/ \E r \in Requests : detect_infer(r) /\ UNCHANGED detvars
    \/ \E r \in Requests : detect_write(r) /\ UNCHANGED detvars
    \/ \E r \in Requests : detect_cleanup(r) /\ UNCHANGED detvars
    \/ \E r \in Requests : detect_frame_request(r, FrameSamples) /\ UNCHANGED detvars

Spec == Init /\ [][Next]_vars

(***************************************************************************)
(* SpecFrame: one camera-frame request over every payload of bounded       *)
(* length; the other requests stay unserved.                               *)
(***************************************************************************)
MaxImageLen == 4   \* longest image payload, in characters

ImageAlphabet == {"i", "V", "=", "-", ","}

ImageStrings == SeqsUpTo(ImageAlphabet, MaxImageLen)

NextFrame ==
    \/ init_detector /\ UNCHANGED detvars
    \/ detect_frame_request(1, ImageStrings) /\ UNCHANGED detvars

SpecFrame == Init /\ [][NextFrame]_vars

(***************************************************************************)
(* SpecDetector: the detector's methods applied to bounded inputs.         *)
(***************************************************************************)
\* raw box corners the model may report (tenths of a pixel, may leave the raster)
BoxCoords == { <<15, 52, 68, 79>>, <<-5, 9, 30, 25>> }

\* raw confidences the model may report (units of 10^-5)
ConfSamples == { 25004, 87656 }

RawBoxes == [xyxy : BoxCoords, cls : DOMAIN class_names, conf : ConfSamples]

\* backgrounds of the input raster
Backgrounds == { <<10, 10, 10>>, <<200, 200, 200>> }

DetectorInputs ==
    /\ \E bg \in Backgrounds :
          /\ heap = (1 :> [p \in Pixels |-> bg])
          /\ snapshot = [p \in Pixels |-> bg]
    /\ frame = 1
    /\ raw \in SeqsUpTo(RawBoxes, MaxBoxes)
    /\ result = None
    /\ stats = None
    /\ dpc = "ready"
    /\ imageResult = NotCalled

\* the application's variables while the detector's methods are applied
AppIdle ==
    /\ modelFile = "ok" /\ started = TRUE /\ loadResult = TRUE
    /\ detector = "WasteDetector" /\ clock = 0 /\ dir = <<>>
    /\ pc = [r \in Requests |-> "new"]
    /\ req = [r \in Requests |-> NoReq]
    /\ loc = [r \in Requests |-> NoLoc]
    /\ resp = [r \in Requests |-> NoResp]
    /\ eff = [r \in Requests |-> NoEff]

\* annotated, detections = detector.detect_frame(frame, conf)
CallDetectFrame ==
    /\ dpc = "ready"
    /\ LET r == detect_frame(heap, frame, raw)
       IN  /\ heap' = r.heap
           /\ result' = [annotated |-> r.annotated, detections |-> r.detections]
    /\ dpc' = "detected"
    /\ UNCHANGED <<frame, snapshot, raw, stats, imageResult>>

\* stats = detector.get_statistics(detections)
CallGetStatistics ==
    /\ dpc = "detected"
    /\ stats' = get_statistics(result.detections)
    /\ dpc' = "summarized"
    /\ UNCHANGED <<heap, frame, snapshot, raw, result, imageResult>>

\* annotated, detections = detector.detect_image(filepath, conf), on a file
\* that holds the same raster as the frame (or cannot be read as an image),
\* with the same raw model output
CallDetectImage ==
    /\ imageResult = NotCalled
    /\ \E readable \in BOOLEAN :
          LET r == detect_image(heap, snapshot, readable, raw)
          IN  /\ heap' = r.heap
              /\ imageResult' = [status |-> r.status, annotated |-> r.annotated,
                                 detections |-> r.detections]
    /\ UNCHANGED <<frame, snapshot, raw, result, stats, dpc>>

NextDetector ==
    \/ CallDetectFrame /\ UNCHANGED appvars
    \/ CallGetStatistics /\ UNCHANGED appvars
    \/ CallDetectImage /\ UNCHANGED appvars

\* a loaded application at rest, and the arguments of one call of the detector
InitDetector == DetectorInputs /\ AppIdle

SpecDetector == InitDetector /\ [][NextDetector]_vars

(***************************************************************************)
(* Claims about the detector's methods (checked under SpecDetector).       *)
(***************************************************************************)
RECURSIVE SumOver(_, _)
\* the sum of f over the keys in S
SumOver(f, S) ==
    IF S = {} THEN 0
    ELSE LET k == CHOOSE x \in S : TRUE
         IN  f[k] + SumOver(f, S \ {k})

\* the positions of D whose detection has class c
Occurrences(D, c) == {i \in 1..Len(D) : D[i].class = c}

\* C1: for every detection list D (also the empty one) get_statistics(D) has
\* total_items = len(D), its categories' keys are exactly the class names
\* occurring in D, each mapped to its number of occurrences, and the counts
\* sum to len(D).
C1_StatisticsCountEveryDetection ==
    dpc = "summarized" =>
        LET D == result.detections
            cats == stats.categories
        IN  /\ stats.total_items = Len(D)
            /\ DOMAIN cats = {D[i].class : i \in 1..Len(D)}
            /\ \A c \in DOMAIN cats : cats[c] = Cardinality(Occurrences(D, c))
            /\ SumOver(cats, DOMAIN cats) = Len(D)

\* a summary of a list in which one class occurs twice next to another class
C1_Witness ==
    /\ dpc = "summarized"
    /\ Len(result.detections) >= 2
    /\ \E c \in DOMAIN stats.categories : stats.categories[c] = 2

\* a summary of the empty list
C1_WitnessEmpty ==
    /\ dpc = "summarized"
    /\ result.detections = <<>>
    /\ stats = [total_items |-> 0, categories |-> <<>>]

\* C9: for every input raster and every list of raw detections (also the
\* empty one) detect_frame draws on a copy: the caller's raster has the same
\* content after the call as before it, and the annotated raster returned
\* is a distinct object.
C9_InputRasterUntouched ==
    dpc # "ready" =>
        /\ heap[frame] = snapshot
        /\ result.annotated # frame
        /\ result.annotated \in DOMAIN heap

\* a call that drew something: the annotated raster differs from the input
C9_Witness ==
    /\ dpc = "detected"
    /\ raw # <<>>
    /\ heap[result.annotated] # snapshot
    /\ heap[frame] = snapshot

(***************************************************************************)
(* Claims about the application (checked under Spec and SpecFrame).        *)
(***************************************************************************)
Done(r) == pc[r] = "done"

\* request r was handled by detect()
IsUpload(r) == req[r].route = "/detect" /\ req[r].method = "POST"

\* request r was handled by detect_frame()
IsFrame(r) == req[r].route = "/detect_frame" /\ req[r].method = "POST"

\* the files of the upload folder that request r wrote
FilesOf(d, r) == {f \in DOMAIN d : d[f].owner = r}

\* the name ends with a dot followed by an allowed extension, in any case
\* of letters, and that dot is the last dot of the name
HasAllowedExtension(name) ==
    \E i \in 1..Len(name) :
        /\ name[i] = "."
        /\ \A j \in (i + 1)..Len(name) : name[j] # "."
        /\ \E ext \in ALLOWED_EXTENSIONS :
              /\ Len(ext) = Len(name) - i
              /\ \A k \in 1..Len(ext) : LowerChar(name[i + k]) = ext[k]

\* an upload with no file field, an empty file name or a file name whose
\* extension is not allowed
InvalidUpload(q) ==
    \/ ~q.hasFile
    \/ q.filename = <<>>
    \/ ~HasAllowedExtension(q.filename)

\* C2: whenever the detector handle is unset, every /detect and
\* /detect_frame request is answered with status 500 and the model-unavailable
\* error, and during the request no inference call is made and no file is
\* written to or deleted from the upload folder.
C2_UnsetHandleShortCircuits ==
    detector = None =>
        /\ dir = <<>>
        /\ \A r \in Requests :
              (Done(r) /\ (IsUpload(r) \/ IsFrame(r))) =>
                  /\ resp[r] = ModelNotLoaded
                  /\ resp[r].status = 500
                  /\ eff[r] = NoEff
                  /\ loc[r] = NoLoc

\* with the handle unset, an upload of an allowed image and a camera frame
\* with an image payload have both been answered
C2_Witness ==
    /\ started /\ detector = None
    /\ \E r1, r2 \in Requests :
          /\ Done(r1) /\ IsUpload(r1) /\ ~InvalidUpload(req[r1]) /\ ~req[r1].oversize
          /\ Done(r2) /\ IsFrame(r2) /\ req[r2].body = "image"
          /\ resp[r1].status = 500 /\ resp[r2].status = 500

\* C3 as stated: every /detect request with no file field, an empty file
\* name or a file name whose extension is not allowed is answered with
\* status 400 and an error, whatever the state of the detector handle, and
\* no inference is attempted and no file is persisted for it.
C3_InvalidUploadIs400 ==
    \A r \in Requests :
        (Done(r) /\ IsUpload(r) /\ InvalidUpload(req[r])) =>
            /\ resp[r].status = 400
            /\ resp[r].success = "false" /\ resp[r].error # ""
            /\ eff[r] = NoEff
            /\ FilesOf(dir, r) = {}

\* C3 as amended: such a request is answered with an error and without any
\* inference or file; the status is 400 when the handle is set and the body
\* is within the size limit, 500 (model unavailable) when the handle is
\* unset, and 413 when the handle is set and the body is over the limit.
C3_InvalidUploadRejected ==
    \A r \in Requests :
        (Done(r) /\ IsUpload(r) /\ InvalidUpload(req[r])) =>
            /\ resp[r].status = IF detector = None THEN 500
                                ELSE IF req[r].oversize THEN 413
                                ELSE 400
            /\ resp[r].success = "false" /\ resp[r].error # ""
            /\ eff[r] = NoEff
            /\ FilesOf(dir, r) = {}

\* with the handle set, an upload named a.png.txt and an upload with no file
\* field have both been answered 400
C3_Witness ==
    /\ detector # None
    /\ \E r1, r2 \in Requests :
          /\ Done(r1) /\ IsUpload(r1) /\ resp[r1].status = 400
          /\ req[r1].filename = <<"a",".","p","n","g",".","t","x","t">>
          /\ Done(r2) /\ IsUpload(r2) /\ resp[r2].status = 400
          /\ ~req[r2].hasFile

\* C4: in the upload flow, if a step after the input file was persisted
\* fails, then, provided the deletions themselves do not fail, when the 500
\* response is returned neither the persisted input file nor the request's
\* 'detected_' output file exists in the upload folder, whether the failure
\* came before the output path was computed or after the output file was
\* written.
C4_CleanupRemovesRequestFiles ==
    [][\A r \in Requests :
          (pc[r] = "except" /\ pc'[r] = "done" /\ loc[r].persisted
             /\ loc'[r].cleanup # "OSError") =>
              /\ resp'[r].status = 500
              /\ loc[r].filename \notin DOMAIN dir'
              /\ loc[r].output_bound => OutputName(loc[r].filename) \notin DOMAIN dir'
              /\ FilesOf(dir', r) = {}]_vars

\* one request failed before its output path was bound and one after its
\* output file was written; both had their files deleted
C4_Witness ==
    \E r1, r2 \in Requests :
        /\ Done(r1) /\ loc[r1].persisted /\ resp[r1].status = 500
        /\ ~loc[r1].output_bound /\ loc[r1].cleanup = "NameError"
        /\ eff[r1].deletes = 1
        /\ Done(r2) /\ loc[r2].persisted /\ resp[r2].status = 500
        /\ loc[r2].output_bound /\ loc[r2].cleanup = ""
        /\ eff[r2].writes = 2 /\ eff[r2].deletes = 2
        /\ loc[r2].cause = "jsonify failed"

\* the text is base64: only alphabet characters, a multiple of four long,
\* with at most two "=" and those at the end
ValidBase64(s) ==
    /\ Len(s) % 4 = 0
    /\ \A i \in 1..Len(s) : s[i] \in DOMAIN B64Value \cup {"="}
    /\ \A i \in 1..Len(s) : s[i] = "=" => i >= Len(s) - 1
    /\ \A i \in 1..Len(s) : (s[i] = "=" /\ i < Len(s)) => s[i + 1] = "="

\* the bytes are an encoded raster
IsRaster(bytes) == bytes # <<>> /\ bytes[1] = RasterSignature

\* the image payload (no data-URL prefix) is not base64 or not a raster
UndecodableImage(q) ==
    /\ q.body = "image"
    /\ Positions(q.image, ",") = {}
    /\ \/ ~ValidBase64(q.image)
       \/ ~IsRaster(b64decode(q.image).bytes)

\* C5: every /detect_frame request (model loaded) whose image field is not
\* valid base64, or whose decoded bytes do not decode to a raster, is
\* answered with status 400, never 500, and no inference is attempted for it.
\* (Stated for requests that are in order otherwise: within the size limit
\* and with a confidence that parses.)
C5_UndecodableFrameIs400 ==
    \A r \in Requests :
        (Done(r) /\ IsFrame(r) /\ detector # None /\ UndecodableImage(req[r])
           /\ ~req[r].oversize /\ ParseConfidence(req[r].confidence).ok) =>
            /\ resp[r].status = 400
            /\ eff[r].inferences = 0

\* C6: for any two /detect requests, in any interleaving, the paths they
\* persist their input and output files to are distinct, so that no request
\* overwrites or deletes a file written by another, also when both uploads
\* carry the same file name and read the clock in the same millisecond.
C6_DistinctPaths ==
    /\ \A r1, r2 \in Requests :
          (r1 # r2 /\ loc[r1].persisted /\ loc[r2].persisted) =>
              loc[r1].filename # loc[r2].filename
    /\ \A r \in Requests :
          loc[r].persisted /\ pc[r] \in {"infer", "write"} =>
              /\ loc[r].filename \in DOMAIN dir
              /\ dir[loc[r].filename].owner = r

\* C7: a /detect_frame request never creates, modifies or deletes a file:
\* on every path through the handler the upload folder is the same after
\* the request as before it.
C7_FrameLeavesFilesAlone ==
    [][\A r \in Requests :
          (pc[r] = "new" /\ pc'[r] = "done" /\ req'[r].route = "/detect_frame"
             /\ req'[r].method = "POST") =>
              /\ dir' = dir
              /\ eff'[r].writes = 0 /\ eff'[r].deletes = 0]_vars

\* a camera frame was annotated while the upload folder holds a file
C7_Witness ==
    /\ dir # <<>>
    /\ \E r \in Requests :
          /\ Done(r) /\ IsFrame(r) /\ resp[r].status = 200
          /\ eff[r].inferences = 1
          /\ FilesOf(dir, r) = {}

\* C8: the detector handle is set exactly when the single startup load
\* attempt succeeded (not when the model file is absent or loading raised)
\* and is never changed by a request afterwards; /health reports
\* model_loaded = true if and only if the handle is set.
C8_HandleSetOnceAtStartup ==
    /\ [](/\ ~started => detector = None
          /\ started => /\ (detector # None) <=> loadResult
                        /\ loadResult <=> (modelFile = "ok")
          /\ \A r \in Requests :
                (Done(r) /\ req[r].route = "/health" /\ req[r].method = "GET") =>
                    /\ resp[r].status = 200
                    /\ resp[r].model_loaded \in {"true", "false"}
                    /\ (resp[r].model_loaded = "true") <=> (detector # None))
    /\ [][started => detector' = detector]_vars

\* the model was loaded, an upload went through the handlers and /health
\* then reported model_loaded = true
C8_Witness ==
    /\ started /\ detector # None /\ dir # <<>>
    /\ \E r \in Requests :
          /\ Done(r) /\ req[r].route = "/health"
          /\ resp[r].model_loaded = "true"

\* the request has one of the client input errors: a missing or empty file,
\* a file extension that is not allowed, a missing or undecodable image
ClientInputError(q) ==
    \/ q.route = "/detect" /\ q.method = "POST" /\ InvalidUpload(q)
    \/ /\ q.route = "/detect_frame" /\ q.method = "POST"
       /\ \/ q.body = "no_image"
          \/ UndecodableImage(q) /\ ParseConfidence(q.confidence).ok

\* C10: every response that is not a success has a non-2xx status and a JSON
\* body {success: false, error: string}, with 400 for client input errors,
\* 413 for an oversized upload and 404/500 for routing and internal
\* failures; a body with success = true only comes with status 200.
C10_ErrorResponsesAreUniform ==
    \A r \in Requests :
        Done(r) =>
            LET p == resp[r]
                q == req[r]
                failure == p.status \notin 200..299 \/ p.success = "false"
            IN  /\ p.success = "true" => p.status = 200
                /\ failure => /\ p.status \in {400, 404, 413, 500}
                              /\ p.body = "json"
                              /\ p.success = "false"
                              /\ p.error # ""
                /\ (detector # None /\ ~q.oversize /\ ClientInputError(q))
                      => p.status = 400
                /\ (detector # None /\ q.oversize /\ IsUpload(r)) => p.status = 413
                /\ q.route = "/nope" => p.status = 404


\* everything after the first comma of s (s has a comma)
AfterFirstComma(s) ==
    LET first == CHOOSE i \in Positions(s, ",") :
                     \A j \in Positions(s, ",") : i <= j
    IN  SubSeq(s, first + 1, Len(s))

\* C11: in the camera-frame flow, when the image string has at least one
\* comma the text that is base64-decoded is exactly everything after the
\* first comma, for any number of commas; when it has no comma the whole
\* string is decoded.
C11_DecodesAfterFirstComma ==
    \A r \in Requests :
        (Done(r) /\ IsFrame(r) /\ loc[r].image_data.bound) =>
            LET image == req[r].image
                text == loc[r].image_data.text
            IN  IF Positions(image, ",") # {}
                THEN text = AfterFirstComma(image)
                ELSE text = image

\* C12: in the upload flow an error raised inside the cleanup block (a
\* failing file deletion, or a reference to the output path before it was
\* computed) never propagates and never changes the response: the step that
\* leaves the except block answers the request itself, with status 500 and
\* the message 'Detection failed: <cause>' whose cause is the one of the
\* original failure, whatever the cleanup block ran into; and the response
\* of an answered request stays what it was.
C12_CleanupErrorsAreSwallowed ==
    /\ [](\A r \in Requests :
            (Done(r) /\ IsUpload(r) /\ loc[r].cleanup # "") =>
                /\ resp[r].status = 500
                /\ resp[r].body = "json" /\ resp[r].success = "false"
                /\ resp[r].error = "Detection failed"
                /\ resp[r].cause = loc[r].cause
                /\ resp[r].cause \notin {"", "NameError", "OSError"})
    /\ [][\A r \in Requests :
            (pc[r] = "except" /\ pc'[r] = "done") =>
                /\ resp'[r] = ErrorResponse(500, "Detection failed", loc[r].cause)
                /\ loc'[r].cause = loc[r].cause]_vars

\* one request whose cleanup referred to the unbound output path and one
\* whose deletion failed; both were answered with the original cause
C12_Witness ==
    \E r1, r2 \in Requests :
        /\ Done(r1) /\ IsUpload(r1) /\ loc[r1].cleanup = "NameError"
        /\ resp[r1].status = 500 /\ resp[r1].cause = "predict failed"
        /\ Done(r2) /\ IsUpload(r2) /\ loc[r2].cleanup = "OSError"
        /\ resp[r2].status = 500 /\ resp[r2].cause = loc[r2].cause
        /\ resp[r2].cause # ""

\* n is the float t (given in tenths) truncated towards zero
TruncatedTo(t, n) ==
    IF t >= 0 THEN 10 * n <= t /\ t < 10 * n + 10
    ELSE t <= 10 * n /\ 10 * n - 10 < t

\* C13: detect_image and detect_frame are the same pipeline: on the same
\* raster (read from the file in one case, passed in memory in the other)
\* and the same raw model output both return an annotated raster with the
\* same content and the same detection list, which has one detection per raw
\* box in the model's order, each with the class name looked up from the
\* class id, the confidence (to four decimals) and the box truncated to
\* integers.
C13_SamePipeline ==
    (dpc # "ready" /\ imageResult.status = "returned") =>
        LET D == result.detections
        IN  /\ heap[imageResult.annotated] = heap[result.annotated]
            /\ imageResult.detections = D
            /\ Len(D) = Len(raw)
            /\ \A i \in 1..Len(raw) :
                  /\ D[i].class = class_names[raw[i].cls]
                  /\ 10 * D[i].confidence - raw[i].conf \in -5..5
                  /\ Len(D[i].bbox) = 4
                  /\ \A k \in 1..4 : TruncatedTo(raw[i].xyxy[k], D[i].bbox[k])

\* both methods ran on a raster for which the model reported two boxes of
\* different classes, one of them reaching over the raster's edge; both drew
C13_Witness ==
    /\ dpc # "ready" /\ imageResult.status = "returned"
    /\ Len(raw) = 2
    /\ raw[1].cls # raw[2].cls
    /\ \E i \in 1..2 : raw[i].xyxy[1] < 0
    /\ heap[imageResult.annotated] # snapshot
    /\ imageResult.annotated # result.annotated
    /\ Len(imageResult.detections) = 2
=============================================================================
